---------------------------- MODULE Spec2Model ----------------------------
(***************************************************************************)
(* Model of tfm-images-shop-parser-byAmr.py: the asyncio asset downloader. *)
(*                                                                         *)
(* download_item is modelled one action per await point (the places where  *)
(* the event loop may run another task); everything between two awaits is *)
(* synchronous Python and is one atomic step.  start_downloads is the      *)
(* orchestrator.  Strings are sequences of one-character strings, so that  *)
(* urlparse, unquote, os.path.join and os.path.dirname are computed, not   *)
(* assumed.  The filesystem is a map from resolved nodes (sequences of     *)
(* path components below "/") to directories and files (POSIX semantics).  *)
(***************************************************************************)
EXTENDS Naturals, Sequences, FiniteSets, TLC

-----------------------------------------------------------------------------
(* Strings                                                                 *)

SLASH == "/"

\* str.startswith(prefix)
StartsWith(s, prefix) ==
    /\ Len(s) >= Len(prefix)
    /\ SubSeq(s, 1, Len(prefix)) = prefix

\* index of the first character of s that is in cs, Len(s)+1 when there is none
RECURSIVE FindFirst(_, _, _)
FindFirst(s, cs, i) ==
    IF i > Len(s) THEN Len(s) + 1
    ELSE IF s[i] \in cs THEN i
    ELSE FindFirst(s, cs, i + 1)

\* str.rfind('/') + 1 : the length of the part up to and including the last '/'
RECURSIVE RFindSlash(_, _)
RFindSlash(s, i) ==
    IF i = 0 THEN 0
    ELSE IF s[i] = SLASH THEN i
    ELSE RFindSlash(s, i - 1)

\* str.rstrip('/')
RECURSIVE RStripSlash(_)
RStripSlash(s) ==
    IF s # <<>> /\ s[Len(s)] = SLASH THEN RStripSlash(SubSeq(s, 1, Len(s) - 1))
    ELSE s

\* head != '/' * len(head)
AllSlashes(s) == \A i \in 1..Len(s) : s[i] = SLASH

\* s.split('?')[0]
SplitQuery0(s) == SubSeq(s, 1, FindFirst(s, {"?"}, 1) - 1)

\* urllib.parse.urlparse(url).path for scheme://netloc/path?query#fragment :
\* the scheme ends at the first ':', the netloc at the first of / ? #,
\* the fragment is cut at '#', then the query at '?'.
UrlPath(url) ==
    LET colon    == FindFirst(url, {":"}, 1)
        hasAuth  == /\ colon + 2 <= Len(url)
                    /\ url[colon + 1] = SLASH
                    /\ url[colon + 2] = SLASH
        afterNet == IF hasAuth THEN FindFirst(url, {SLASH, "?", "#"}, colon + 3)
                    ELSE IF colon <= Len(url) THEN colon + 1 ELSE 1
        rest     == SubSeq(url, afterNet, Len(url))
        noFrag   == SubSeq(rest, 1, FindFirst(rest, {"#"}, 1) - 1)
    IN  SubSeq(noFrag, 1, FindFirst(noFrag, {"?"}, 1) - 1)

\* Hexadecimal digits that occur in the modelled locators, and their values.
HexDigits == {"0", "2", "E", "F"}
HexVal(c) == CASE c = "0" -> 0 [] c = "2" -> 2 [] c = "E" -> 14 [] c = "F" -> 15

\* chr(n) for the codes the modelled escapes produce; "~" stands for any
\* other character (it is neither a separator nor a dot).
Chr(n) == CASE n = 32 -> " " [] n = 46 -> "." [] n = 47 -> "/" [] OTHER -> "~"

\* urllib.parse.unquote: every %XY with two hex digits becomes chr(0xXY),
\* anything else is copied.
RECURSIVE Unquote(_)
Unquote(s) ==
    IF s = <<>> THEN <<>>
    ELSE IF /\ s[1] = "%"
            /\ Len(s) >= 3
            /\ s[2] \in HexDigits
            /\ s[3] \in HexDigits
         THEN <<Chr(16 * HexVal(s[2]) + HexVal(s[3]))>> \o Unquote(SubSeq(s, 4, Len(s)))
         ELSE <<s[1]>> \o Unquote(Tail(s))

\* os.path.join(a, b) (posixpath)
\* (variant: an empty b is given the name of an index file)
PathJoinIndex(a, b) ==
    IF StartsWith(b, <<SLASH>>) THEN b
    ELSE a \o <<SLASH>> \o (IF b = <<>> THEN <<"i", "n", "d", "e", "x">> ELSE b)

PathJoin(a, b) ==
    IF StartsWith(b, <<SLASH>>) THEN b
    ELSE IF a = <<>> \/ a[Len(a)] = SLASH THEN a \o b
    ELSE a \o <<SLASH>> \o b

\* os.path.dirname(p) (posixpath)
DirName(p) ==
    LET head == SubSeq(p, 1, RFindSlash(p, Len(p)))
    IN  IF head # <<>> /\ ~AllSlashes(head) THEN RStripSlash(head) ELSE head

\* os.path.basename(p) (posixpath)
BaseName(p) == SubSeq(p, RFindSlash(p, Len(p)) + 1, Len(p))

-----------------------------------------------------------------------------
(* Filesystem (POSIX).  A node is the sequence of components leading to it *)
(* from "/"; fs maps the existing nodes to directories and regular files.  *)

Dir        == [dir |-> TRUE, data |-> <<>>]
File(data) == [dir |-> FALSE, data |-> data]

\* the process's working directory, /cwd
CWD == << <<"c", "w", "d">> >>

\* the components of a path string, empty ones (repeated separators) dropped
RECURSIVE Components(_)
Components(p) ==
    IF p = <<>> THEN <<>>
    ELSE LET i    == FindFirst(p, {SLASH}, 1)
             c    == SubSeq(p, 1, i - 1)
             rest == Components(SubSeq(p, i + 1, Len(p)))
         IN  IF c = <<>> THEN rest ELSE <<c>> \o rest

Parent(node) == IF node = <<>> THEN <<>> ELSE SubSeq(node, 1, Len(node) - 1)

\* Path resolution from node cur through the components cs: every node passed
\* through must be an existing directory; the last one may be anything.
RECURSIVE WalkFrom(_, _, _)
WalkFrom(f, cur, cs) ==
    IF cs = <<>> THEN [err |-> "ok", node |-> cur]
    ELSE IF cur \notin DOMAIN f THEN [err |-> "ENOENT", node |-> cur]
    ELSE IF ~f[cur].dir THEN [err |-> "ENOTDIR", node |-> cur]
    ELSE LET c == Head(cs)
             nxt == IF c = <<".">> THEN cur
                    ELSE IF c = <<".", ".">> THEN Parent(cur)
                    ELSE Append(cur, c)
         IN  WalkFrom(f, nxt, Tail(cs))

Walk(f, p) ==
    IF p = <<>> THEN [err |-> "ENOENT", node |-> <<>>]
    ELSE WalkFrom(f, IF p[1] = SLASH THEN <<>> ELSE CWD, Components(p))

\* a path string written with a trailing separator names a directory
TrailingSlash(p) == p # <<>> /\ p[Len(p)] = SLASH

\* os.stat(p): "ok" or the errno
Stat(f, p) ==
    LET w == Walk(f, p)
    IN  IF w.err # "ok" THEN w.err
        ELSE IF w.node \notin DOMAIN f THEN "ENOENT"
        ELSE IF TrailingSlash(p) /\ ~f[w.node].dir THEN "ENOTDIR"
        ELSE "ok"

\* os.path.exists(p), os.path.isdir(p)
PathExists(f, p) == Stat(f, p) = "ok"
IsDir(f, p)      == Stat(f, p) = "ok" /\ f[Walk(f, p).node].dir

\* f with node n set to entry e
Put(f, n, e) == [x \in DOMAIN f \cup {n} |-> IF x = n THEN e ELSE f[x]]

\* os.mkdir(p): the new filesystem, or the errno
Mkdir(f, p) ==
    LET w == Walk(f, p)
    IN  IF w.err # "ok" THEN [err |-> w.err, fs |-> f, made |-> {}]
        ELSE IF w.node \in DOMAIN f THEN [err |-> "EEXIST", fs |-> f, made |-> {}]
        ELSE IF Parent(w.node) \notin DOMAIN f
             THEN [err |-> "ENOENT", fs |-> f, made |-> {}]
        ELSE IF ~f[Parent(w.node)].dir
             THEN [err |-> "ENOTDIR", fs |-> f, made |-> {}]
        ELSE [err |-> "ok", fs |-> Put(f, w.node, Dir), made |-> {w.node}]

\* os.path.split(p) (posixpath)
PathSplit(p) ==
    LET i    == RFindSlash(p, Len(p))
        head == SubSeq(p, 1, i)
    IN  [head |-> IF head # <<>> /\ ~AllSlashes(head) THEN RStripSlash(head) ELSE head,
         tail |-> SubSeq(p, i + 1, Len(p))]

\* (variant: os.mkdir in the place of os.makedirs, the parents are not made)
MakeDirsFlat(f, name, exist_ok) ==
    LET m == Mkdir(f, name)
    IN  IF m.err # "ok" /\ exist_ok /\ IsDir(f, name)
        THEN [err |-> "ok", fs |-> f, made |-> {}]
        ELSE m

\* os.makedirs(name, exist_ok): the parents first, a FileExistsError of the
\* recursive call is ignored, and a failed mkdir of name itself is forgiven
\* when exist_ok is set and name is a directory.
RECURSIVE MakeDirs(_, _, _)
MakeDirs(f, name, exist_ok) ==
    LET s1   == PathSplit(name)
        s    == IF s1.tail = <<>> THEN PathSplit(s1.head) ELSE s1
        rec  == s.head # <<>> /\ s.tail # <<>> /\ ~PathExists(f, s.head)
        up   == IF rec THEN MakeDirs(f, s.head, exist_ok) ELSE [err |-> "ok", fs |-> f, made |-> {}]
        upOk == up.err \in {"ok", "EEXIST"}
        m    == Mkdir(up.fs, name)
    IN  IF ~upOk THEN up
        ELSE IF rec /\ s.tail = <<".">> THEN [up EXCEPT !.err = "ok"]
        ELSE IF m.err = "ok" THEN [err |-> "ok", fs |-> m.fs, made |-> up.made \cup m.made]
        ELSE IF exist_ok /\ IsDir(up.fs, name)
             THEN [err |-> "ok", fs |-> up.fs, made |-> up.made]
        ELSE [err |-> m.err, fs |-> up.fs, made |-> up.made]

\* open(p, 'rb'): the node read from, or the errno
OpenRB(f, p) ==
    LET w == Walk(f, p)
    IN  IF Stat(f, p) # "ok" THEN [err |-> Stat(f, p), node |-> <<>>]
        ELSE IF f[w.node].dir THEN [err |-> "EISDIR", node |-> w.node]
        ELSE [err |-> "ok", node |-> w.node]

\* (variant: mode 'r+b' or 'ab'-like open that keeps the old bytes)
OpenWBNoTrunc(f, p) ==
    LET w == Walk(f, p)
    IN  IF w.err # "ok" THEN [err |-> w.err, fs |-> f, node |-> <<>>]
        ELSE IF w.node \in DOMAIN f /\ f[w.node].dir
             THEN [err |-> "EISDIR", fs |-> f, node |-> w.node]
        ELSE IF w.node \in DOMAIN f THEN [err |-> "ok", fs |-> f, node |-> w.node]
        ELSE [err |-> "ok", fs |-> Put(f, w.node, File(<<>>)), node |-> w.node]

\* open(p, 'wb') = O_WRONLY|O_CREAT|O_TRUNC: an existing file is emptied at
\* once, a missing one is created empty.
OpenWB(f, p) ==
    LET w == Walk(f, p)
    IN  IF w.err # "ok" THEN [err |-> w.err, fs |-> f, node |-> <<>>]
        ELSE IF w.node \in DOMAIN f /\ f[w.node].dir
             THEN [err |-> "EISDIR", fs |-> f, node |-> w.node]
        ELSE IF TrailingSlash(p) THEN [err |-> "EISDIR", fs |-> f, node |-> w.node]
        ELSE IF Parent(w.node) \notin DOMAIN f \/ ~f[Parent(w.node)].dir
             THEN [err |-> "ENOENT", fs |-> f, node |-> w.node]
        ELSE [err |-> "ok", fs |-> Put(f, w.node, File(<<>>)), node |-> w.node]

\* write(fd, data) on a descriptor whose offset is 0: data replaces the first
\* Len(data) bytes of the file, whatever follows them stays.
Overlay(old, data) ==
    IF Len(data) >= Len(old) THEN data
    ELSE data \o SubSeq(old, Len(data) + 1, Len(old))

-----------------------------------------------------------------------------
(* Settings and inputs                                                     *)

\* BASE_DOWNLOAD_FOLDER = "TFM_DOWNLOADED_ASSETS"
BASE_DOWNLOAD_FOLDER == <<"T", "F", "M", "_", "D", "O", "W", "N", "L", "O", "A", "D", "E", "D", "_", "A", "S", "S", "E", "T", "S">>

\* the node of the base folder: it is a relative path, resolved from CWD
RootNode == Append(CWD, BASE_DOWNLOAD_FOLDER)

\* Number of download_item coroutines in a batch of the engine specification.
NumWorkers == 2

\* Locators a batch is drawn from.
LocA      == <<"h", "t", "t", "p", ":", "/", "/", "h", "/", "a">>
LocAQuery == <<"h", "t", "t", "p", ":", "/", "/", "h", "/", "a", "?", "v", "=", "2">>
LocAB     == <<"h", "t", "t", "p", ":", "/", "/", "h", "/", "a", "/", "b">>
LocDotDot == <<"h", "t", "t", "p", ":", "/", "/", "h", "/", ".", ".", "/", "x">>
LocTwoSep == <<"h", "t", "t", "p", ":", "/", "/", "h", "/", "/", "x">>
LocEnc    == <<"h", "t", "t", "p", ":", "/", "/", "h", "/", "%", "2", "E", "%", "2", "E", "%", "2", "F", "x">>
LocNoPath == <<"h", "t", "t", "p", ":", "/", "/", "h">>
LocSlash  == <<"h", "t", "t", "p", ":", "/", "/", "h", "/">>
LocACD    == <<"h", "t", "t", "p", ":", "/", "/", "h", "/", "a", "/", "c", "/", "d">>
Locators  == {LocA, LocAQuery, LocAB, LocDotDot, LocTwoSep, LocEnc, LocNoPath, LocSlash, LocACD}

\* Response bodies (bytes), of two different lengths.
Bodies == {<<1, 2>>, <<3>>}

\* Status codes a server answers with: 200, 404, and one other.
Statuses == {200, 404, 500}

\* Stores a run can start from: the base folder alone (a first run), or with
\* files left there by an earlier run.
StoreEmpty == (CWD :> Dir) @@ (<<>> :> Dir) @@ (RootNode :> Dir)
StoreWithA == StoreEmpty @@ (Append(RootNode, <<"a">>) :> File(<<1, 2>>))
InitStores == {StoreEmpty, StoreWithA}

\* line 96
paths_for_derpolino ==
    << <<"i", "m", "a", "g", "e", "s">>,
       <<"a", "r">>,
       <<"g", "o", "d", "s", "p", "a", "w">>,
       <<"s", "h", "a", "r", "e">>,
       <<"w", "o", "o", "t">>,
       <<"w", "p", "-", "a", "d", "m", "i", "n">>,
       <<"w", "p", "-", "c", "o", "n", "t", "e", "n", "t">>,
       <<"w", "p", "-", "i", "n", "c", "l", "u", "d", "e", "s">> >>

\* line 123: the origin a relative entry is qualified against
TransformiceOrigin == <<"h", "t", "t", "p", "s", ":", "/", "/", "w", "w", "w", ".", "t", "r", "a", "n", "s", "f", "o", "r", "m", "i", "c", "e", ".", "c", "o", "m", "/">>

\* lines 142-143
bibliotheques_base == <<"h", "t", "t", "p", ":", "/", "/", "t", "r", "a", "n", "s", "f", "o", "r", "m", "i", "c", "e", ".", "c", "o", "m", "/", "i", "m", "a", "g", "e", "s", "/", "x", "_", "b", "i", "b", "l", "i", "o", "t", "h", "e", "q", "u", "e", "s", "/">>
binaries ==
    << <<"x", "_", "f", "o", "u", "r", "r", "u", "r", "e", "s">>,
       <<"x", "_", "f", "o", "u", "r", "r", "u", "r", "e", "s", "2">>,
       <<"x", "_", "f", "o", "u", "r", "r", "u", "r", "e", "s", "3">>,
       <<"x", "_", "f", "o", "u", "r", "r", "u", "r", "e", "s", "4">>,
       <<"x", "_", "m", "e", "l", "i", "_", "c", "o", "s", "t", "u", "m", "e", "s">>,
       <<"x", "_", "p", "i", "c", "t", "o", "s", "_", "e", "d", "i", "t", "e", "u", "r">> >>

\* lines 148, 150
langues_base == <<"h", "t", "t", "p", ":", "/", "/", "t", "r", "a", "n", "s", "f", "o", "r", "m", "i", "c", "e", ".", "c", "o", "m", "/", "l", "a", "n", "g", "u", "e", "s", "/">>
langues ==
    << <<"e", "n">>, <<"f", "r">>, <<"b", "r">>, <<"e", "s">>, <<"c", "n">>, <<"t", "r">>,
       <<"v", "k">>, <<"p", "l">>, <<"h", "u">>, <<"n", "l">>, <<"r", "o">>, <<"i", "d">>,
       <<"d", "e">>, <<"e", "2">>, <<"a", "r">>, <<"p", "h">>, <<"l", "t">>, <<"j", "p">>,
       <<"c", "h">>, <<"f", "i">>, <<"c", "z">>, <<"s", "k">>, <<"h", "r">>, <<"b", "u">>,
       <<"l", "v">>, <<"h", "e">>, <<"i", "t">>, <<"e", "t">>, <<"a", "z">>, <<"p", "t">> >>

\* lines 155-156: range(4)
musiques_base == <<"h", "t", "t", "p", ":", "/", "/", "t", "r", "a", "n", "s", "f", "o", "r", "m", "i", "c", "e", ".", "c", "o", "m", "/", "i", "m", "a", "g", "e", "s", "/", "m", "u", "s", "i", "q", "u", "e", "s", "/">>
NumMusic == 4

\* str(n) of a one-digit number
Digit(n) == <<CASE n = 0 -> "0" [] n = 1 -> "1" [] n = 2 -> "2" [] n = 3 -> "3" [] OTHER -> "9">>

\* Entries a discovery response can list: a relative path, one with leading
\* separators, an absolute URL, and a value that is no string.
EntryRel   == [str |-> TRUE, val |-> <<"i", "m", "a", "g", "e", "s", "/", "x", ".", "p", "n", "g">>]
EntrySlash == [str |-> TRUE, val |-> <<"/", "/", "s", "h", "a", "r", "e", "/", "y">>]
EntryAbs   == [str |-> TRUE, val |-> <<"h", "t", "t", "p", ":", "/", "/", "h", "/", "a">>]
EntryNum   == [str |-> FALSE, val |-> <<>>]
Entries    == {EntryRel, EntrySlash, EntryAbs, EntryNum}

\* Most entries in one discovery response, and most discovered locators in a run.
MaxItems == 2
MaxDiscovered == 2

RECURSIVE SeqsUpTo(_, _)
SeqsUpTo(set, n) ==
    IF n = 0 THEN {<<>>}
    ELSE SeqsUpTo(set, n - 1) \cup
         {Append(q, e) : q \in {x \in SeqsUpTo(set, n - 1) : Len(x) = n - 1}, e \in set}

\* What json.loads makes of a response body: a failure, an object (of which
\* the values are taken), an array, or another value.
JsonValues ==
    {[kind |-> "invalid", items |-> <<>>], [kind |-> "other", items |-> <<>>]}
    \cup {[kind |-> k, items |-> q] : k \in {"dict", "list"}, q \in SeqsUpTo(Entries, MaxItems)}

\* Stores the program can be started on: no base folder yet, or one.
StoreNoBase == (CWD :> Dir) @@ (<<>> :> Dir)
StartStores == {StoreNoBase, StoreEmpty}

-----------------------------------------------------------------------------
(* State                                                                   *)

VARIABLES
    fs,         \* the filesystem
    session,    \* the aiohttp.ClientSession: "none", "open" or "closed"
    tasks,      \* start_downloads' list of download_item coroutines
    pcMain,     \* where start_downloads is
    mainLog,    \* what start_downloads has printed
    seg,        \* the index in paths_for_derpolino of the segment being queried
    derpolino_urls_to_download,
    disc,       \* how the latest discovery query ended
    entries,    \* how many entries the discovery responses held: strings, others (history)
    nstarted,   \* how many coroutines gather has started
    nfinished,  \* asyncio.gather's count of finished children
    pc,         \* per coroutine: the await it is suspended at
    content,    \* per coroutine: content_to_write
    handle,     \* per coroutine: the node of the file it has open
    log,        \* per coroutine: what download_item has printed
    hist,       \* per coroutine: what happened to it (history, read by properties only)
    fs0         \* the filesystem the batch started from (history)

vars == <<fs, session, tasks, pcMain, mainLog, seg, derpolino_urls_to_download, disc,
          entries,
          nstarted, nfinished, pc, content, handle, log, hist, fs0>>

\* the variables of the discovery loop
discVars == <<seg, derpolino_urls_to_download, disc, entries>>

Workers == 1..Len(tasks)

-----------------------------------------------------------------------------
(* download_item                                                           *)

\* lines 25-37: the local path of a URL
LocalFilePath(url, base_folder) ==
    LET parsed_path        == UrlPath(url)
        path_without_query == Unquote(SplitQuery0(parsed_path))
        stripped           == IF StartsWith(path_without_query, <<SLASH>>)
                              THEN Tail(path_without_query)
                              ELSE path_without_query
    IN  PathJoin(base_folder, stripped)

\* (variant: local_filepath bound late, every coroutine using the path of the
\* last coroutine of the list)
LocalPathOfLast(w) == LocalFilePath(tasks[Len(tasks)].url, tasks[Len(tasks)].base_folder)

LocalPathOf(w) == LocalFilePath(tasks[w].url, tasks[w].base_folder)
LocalDirOf(w)  == DirName(LocalPathOf(w))

\* (variant: no except clause for OSError and none for Exception, so that
\* a filesystem error leaves the coroutine)
ExceptHandlerNoOSError(exc) ==
    CASE exc = "ClientError" -> "NETWORK_ERROR"
      [] OTHER               -> "RAISE"

\* (variant: the OSError clause reports a network error)
ExceptHandlerMislabel(exc) ==
    CASE exc = "ClientError" -> "NETWORK_ERROR"
      [] exc = "OSError"     -> "NETWORK_ERROR"
      [] OTHER               -> "UNEXPECTED_ERROR"

\* lines 68-75: the except clauses, by the class of the exception raised
ExceptHandler(exc) ==
    CASE exc = "ClientError" -> "NETWORK_ERROR"
      [] exc = "OSError"     -> "OS_ERROR"
      [] OTHER               -> "UNEXPECTED_ERROR"

\* (variant: every status but 404 is taken for a success)
StatusOKNot404(status) == status # 404

\* line 21: resp.status == 200
StatusOK(status) == status = 200

\* lines 63-66: the branches for a status other than 200
StatusLine(status) == IF status = 404 THEN "ERROR_404" ELSE "ERROR_STATUS"

\* (variant: the existing file is read as text, and a str never equals bytes)
ContentMatchesTextMode(existing_content, content_to_write) == FALSE

\* line 51: existing_content == content_to_write
ContentMatches(existing_content, content_to_write) == existing_content = content_to_write

\* an exception that no except clause of download_item catches leaves it
Escapes(lines) == lines # <<>> /\ lines[Len(lines)] = "RAISE"

\* The coroutine ends.  If it returns (normally or after an except clause),
\* gather's done-callback counts it.  If an exception leaves it, gather raises
\* it in start_downloads at line 162: the session's with block is left, the
\* exception leaves start_downloads, and asyncio.run cancels the other tasks.
Finish(w, lines) ==
    /\ log' = [log EXCEPT ![w] = log[w] \o lines]
    /\ IF Escapes(lines)
       THEN /\ pc' = [v \in DOMAIN pc |->
                        IF v = w THEN "raised"
                        ELSE IF pc[v] = "done" THEN "done" ELSE "cancelled"]
            /\ pcMain' = "raised"
            /\ session' = "closed"
            /\ UNCHANGED nfinished
       ELSE /\ pc' = [pc EXCEPT ![w] = "done"]
            /\ nfinished' = nfinished + 1
            /\ UNCHANGED <<pcMain, session>>

\* the coroutine goes on to its next await
Goto(w, where, lines) ==
    /\ pc' = [pc EXCEPT ![w] = where]
    /\ log' = [log EXCEPT ![w] = log[w] \o lines]
    /\ UNCHANGED <<nfinished, pcMain, session>>

Note(w, field, value) == hist' = [hist EXCEPT ![w][field] = value]

\* lines 18-20: the task starts, prints and issues the request.  A request on
\* a closed session raises RuntimeError.
Start(w) ==
    /\ pcMain = "gather"
    /\ pc[w] = "new"
    /\ IF session = "open"
       THEN /\ Goto(w, "get", <<"INFO">>)
            /\ UNCHANGED hist
       ELSE /\ Finish(w, <<"INFO", ExceptHandler("RuntimeError")>>)
            /\ Note(w, "resp", "RuntimeError")
    /\ nstarted' = nstarted + 1
    /\ UNCHANGED <<fs, tasks, mainLog, discVars, content, handle, fs0>>

\* line 20-21, 63-66: the response head arrives
GetResponds(w) ==
    /\ pc[w] = "get"
    /\ \E status \in Statuses :
          /\ Note(w, "status", status)
          /\ IF StatusOK(status)
             THEN Goto(w, "read", <<>>)
             ELSE Finish(w, <<StatusLine(status)>>)
    /\ UNCHANGED <<fs, tasks, mainLog, discVars, nstarted, content, handle, fs0>>

\* line 20: the request fails: a transport error (aiohttp.ClientError) or
\* something else
GetRaises(w) ==
    /\ pc[w] = "get"
    /\ \E exc \in {"ClientError", "Exception"} :
          /\ Note(w, "resp", exc)
          /\ Finish(w, <<ExceptHandler(exc)>>)
    /\ UNCHANGED <<fs, tasks, mainLog, discVars, nstarted, content, handle, fs0>>

\* line 22: reading the body fails at transport level
ReadRaises(w) ==
    /\ pc[w] = "read"
    /\ Note(w, "body", "ClientError")
    /\ Finish(w, <<ExceptHandler("ClientError")>>)
    /\ UNCHANGED <<fs, tasks, mainLog, discVars, nstarted, content, handle, fs0>>

\* lines 22-47: the body arrives; then, without an await, the path is
\* computed, the parent directory is created when missing, and the file's
\* existence decides between comparing and writing.  deny: the directory
\* creation is refused by the system (permissions, a full disk).
ReadBody(w) ==
    /\ pc[w] = "read"
    /\ \E b \in Bodies, deny \in BOOLEAN :
          LET local_filepath == LocalPathOf(w)
              local_dir      == LocalDirOf(w)
              missing        == ~PathExists(fs, local_dir)
              mk             == MakeDirs(fs, local_dir, TRUE)
              fs1            == IF missing /\ ~deny THEN mk.fs ELSE fs
              failed         == missing /\ (deny \/ mk.err # "ok")
              made           == IF missing /\ ~deny THEN mk.made ELSE {}
              lines          == IF missing THEN <<"CREATE_DIR">> ELSE <<>>
          IN  /\ deny => missing
              /\ content' = [content EXCEPT ![w] = b]
              /\ fs' = fs1
              /\ hist' = [hist EXCEPT ![w].body = "ok",
                                      ![w].existed = ~failed /\ PathExists(fs1, local_filepath),
                                      ![w].after = {v \in Workers : pc[v] = "done"},
                                      ![w].made = made,
                                      ![w].inject = IF deny THEN {"mkdir"} ELSE {},
                                      ![w].oserror = IF failed THEN "mkdir" ELSE "none"]
              /\ IF failed
                 THEN Finish(w, lines \o <<ExceptHandler("OSError")>>)
                 ELSE IF PathExists(fs1, local_filepath)
                      THEN Goto(w, "open_r", lines)
                      ELSE Goto(w, "open_w", lines)
    /\ UNCHANGED <<tasks, mainLog, discVars, nstarted, handle, fs0>>

\* (variant: without the inner try the error of the read reaches line 70)
ReadFailsUncaught(w, inj) ==
    /\ Finish(w, <<ExceptHandler("OSError")>>)
    /\ hist' = [hist EXCEPT ![w].readfail = TRUE, ![w].inject = @ \cup inj]

\* lines 56-57: the inner except prints a warning and the coroutine goes on
\* to the write.  inj: the refusal of the system that made the read fail.
ReadFails(w, inj) ==
    /\ Goto(w, "open_w", <<"WARN_READ">>)
    /\ hist' = [hist EXCEPT ![w].readfail = TRUE, ![w].inject = @ \cup inj]

\* line 49: aiofiles.open(local_filepath, 'rb'); a failure is caught by the
\* inner except (lines 56-57) and the coroutine goes on to write
OpenExisting(w) ==
    /\ pc[w] = "open_r"
    /\ \E deny \in BOOLEAN :
          LET o == OpenRB(fs, LocalPathOf(w))
          IN  IF deny \/ o.err # "ok"
              THEN /\ ReadFails(w, IF deny THEN {"open_r"} ELSE {})
                   /\ UNCHANGED handle
              ELSE /\ Goto(w, "read_f", <<>>)
                   /\ handle' = [handle EXCEPT ![w] = o.node]
                   /\ UNCHANGED hist
    /\ UNCHANGED <<fs, tasks, mainLog, discVars, nstarted, content, fs0>>

\* lines 50-57: f_existing.read(), the close of the with block, and the
\* comparison
ReadExisting(w) ==
    /\ pc[w] = "read_f"
    /\ \E deny \in BOOLEAN :
          LET existing_content == fs[handle[w]].data
          IN  IF deny
              THEN ReadFails(w, {"read"})
              ELSE /\ Note(w, "seen", <<existing_content>>)
                   /\ IF ContentMatches(existing_content, content[w])
                      THEN Finish(w, <<"SKIP">>)
                      ELSE Goto(w, "open_w", <<"WARN_DIFFERS">>)
    /\ UNCHANGED <<fs, tasks, mainLog, discVars, nstarted, content, handle, fs0>>

\* line 59: aiofiles.open(local_filepath, 'wb'): the file is created or
\* emptied by the open itself.  deny: the system refuses the open.
OpenForWrite(w) ==
    /\ pc[w] = "open_w"
    /\ \E deny \in BOOLEAN :
          LET o == OpenWB(fs, LocalPathOf(w))
          IN  IF deny \/ o.err # "ok"
              THEN /\ Finish(w, <<ExceptHandler("OSError")>>)
                   /\ hist' = [hist EXCEPT ![w].oserror = "open_w",
                                           ![w].inject = @ \cup (IF deny THEN {"open_w"} ELSE {})]
                   /\ UNCHANGED <<fs, handle>>
              ELSE /\ Goto(w, "write", <<>>)
                   /\ fs' = o.fs
                   /\ handle' = [handle EXCEPT ![w] = o.node]
                   /\ hist' = [hist EXCEPT ![w].wrote = @ \cup {o.node}]
    /\ UNCHANGED <<tasks, mainLog, discVars, nstarted, content, fs0>>

\* the bytes of data that reached the file when a write stopped after k bytes
Written(node, data, k) == Put(fs, node, File(Overlay(fs[node].data, SubSeq(data, 1, k))))

\* line 60: f.write(content_to_write).  The file object is buffered: a short
\* content stays in the buffer until the close, a long one is written through.
\* A write that fails (a full disk) may have written a part; the with block
\* then closes the file and the OSError reaches line 70.
WriteContent(w) ==
    /\ pc[w] = "write"
    /\ \/ /\ Goto(w, "close_buffered", <<>>)
          /\ UNCHANGED <<fs, hist>>
       \/ /\ Goto(w, "close", <<>>)
          /\ fs' = Written(handle[w], content[w], Len(content[w]))
          /\ UNCHANGED hist
       \/ \E k \in 0..(Len(content[w]) - 1) :
             /\ Finish(w, <<ExceptHandler("OSError")>>)
             /\ fs' = Written(handle[w], content[w], k)
             /\ hist' = [hist EXCEPT ![w].oserror = "write", ![w].inject = @ \cup {"write"}]
    /\ UNCHANGED <<tasks, mainLog, discVars, nstarted, content, handle, fs0>>

\* lines 59-61: the with block closes the file, which flushes the buffer, and
\* the save is reported.  A failing flush raises OSError.
CloseFile(w) ==
    /\ pc[w] \in {"close", "close_buffered"}
    /\ \/ /\ Finish(w, <<"SAVE">>)
          /\ fs' = IF pc[w] = "close_buffered"
                   THEN Written(handle[w], content[w], Len(content[w]))
                   ELSE fs
          /\ UNCHANGED hist
       \/ /\ pc[w] = "close_buffered"
          /\ \E k \in 0..(Len(content[w]) - 1) :
                /\ Finish(w, <<ExceptHandler("OSError")>>)
                /\ fs' = Written(handle[w], content[w], k)
                /\ hist' = [hist EXCEPT ![w].oserror = "close", ![w].inject = @ \cup {"close"}]
    /\ UNCHANGED <<tasks, mainLog, discVars, nstarted, content, handle, fs0>>

-----------------------------------------------------------------------------
(* start_downloads                                                         *)

\* line 137: a download_item coroutine, not yet started
Coroutine(url) == [url |-> url, session |-> "session", base_folder |-> BASE_DOWNLOAD_FOLDER]

NoHist ==
    [status |-> 0, resp |-> "none", body |-> "none", existed |-> FALSE, after |-> {},
     made |-> {}, wrote |-> {},
     inject |-> {}, oserror |-> "none", readfail |-> FALSE, seen |-> <<>>]

\* line 162: await asyncio.gather(*tasks) returns once every child has finished
\* (variant: asyncio.wait(..., return_when=FIRST_COMPLETED))
GatherReadyFirstCompleted == pcMain = "gather" /\ nfinished >= 1

GatherReady == pcMain = "gather" /\ nfinished = Len(tasks)

GatherReturns ==
    /\ GatherReady
    /\ pcMain' = "exit_session"
    /\ UNCHANGED <<fs, session, tasks, mainLog, discVars, nstarted, nfinished,
                   pc, content, handle, log, hist, fs0>>

\* lines 91, 166: the async with block of the session ends, which closes the
\* session; then the end of the run is reported
ExitSession ==
    /\ pcMain = "exit_session"
    /\ session' = "closed"
    /\ mainLog' = Append(mainLog, "FINISHED")
    /\ pcMain' = "input"
    /\ UNCHANGED <<fs, tasks, discVars, nstarted, nfinished, pc, content, handle, log, hist, fs0>>

-----------------------------------------------------------------------------
(* The engine: one batch of NumWorkers coroutines handed to asyncio.gather *)
(* (line 162) over a store whose base folder exists.                       *)

Init ==
    /\ fs \in InitStores
    /\ fs0 = fs
    /\ session = "open"
    /\ tasks \in [1..NumWorkers -> {Coroutine(u) : u \in Locators}]
    /\ pcMain = "gather"
    /\ mainLog = <<"BANNER", "STARTING">>
    /\ seg = Len(paths_for_derpolino) + 1
    /\ derpolino_urls_to_download = [i \in 1..NumWorkers |-> tasks[i].url]
    /\ disc = "none"
    /\ entries = [strings |-> Len(derpolino_urls_to_download), others |-> 0]
    /\ nstarted = 0
    /\ nfinished = 0
    /\ pc = [w \in 1..NumWorkers |-> "new"]
    /\ content = [w \in 1..NumWorkers |-> <<>>]
    /\ handle = [w \in 1..NumWorkers |-> <<>>]
    /\ log = [w \in 1..NumWorkers |-> <<>>]
    /\ hist = [w \in 1..NumWorkers |-> NoHist]

Next ==
    \/ \E w \in Workers : Start(w)
    \/ \E w \in Workers : GetResponds(w)
    \/ \E w \in Workers : GetRaises(w)
    \/ \E w \in Workers : ReadRaises(w)
    \/ \E w \in Workers : ReadBody(w)
    \/ \E w \in Workers : OpenExisting(w)
    \/ \E w \in Workers : ReadExisting(w)
    \/ \E w \in Workers : OpenForWrite(w)
    \/ \E w \in Workers : WriteContent(w)
    \/ \E w \in Workers : CloseFile(w)
    \/ GatherReturns
    \/ ExitSession

Spec == Init /\ [][Next]_vars

-----------------------------------------------------------------------------
(* start_downloads from its first line                                     *)

\* str.lstrip('/')
RECURSIVE LStripSlash(_)
LStripSlash(s) == IF s # <<>> /\ s[1] = SLASH THEN LStripSlash(Tail(s)) ELSE s

HTTP  == <<"h", "t", "t", "p", ":", "/", "/">>
HTTPS == <<"h", "t", "t", "p", "s", ":", "/", "/">>

\* line 122: p_url.startswith(('http://', 'https://'))
IsAbsoluteUrl(p_url) == StartsWith(p_url, HTTP) \/ StartsWith(p_url, HTTPS)

\* lines 122-125
\* (variant: the entry is taken as it is)
FullUrlAsGiven(p_url) == p_url

FullUrl(p_url) ==
    IF ~IsAbsoluteUrl(p_url) THEN TransformiceOrigin \o LStripSlash(p_url) ELSE p_url

\* lines 118-126: the entries of one response, the ones that are no strings
\* skipped
RECURSIVE Qualified(_)
Qualified(items) ==
    IF items = <<>> THEN <<>>
    ELSE IF ~Head(items).str THEN Qualified(Tail(items))
    ELSE <<FullUrl(Head(items).val)>> \o Qualified(Tail(items))

\* lines 143-144, 150-151, 156-157: the URLs of the three static lists
BinaryUrls == [i \in 1..Len(binaries) |-> bibliotheques_base \o binaries[i] \o <<".", "s", "w", "f">>]
LangueUrls == [i \in 1..Len(langues) |-> langues_base \o <<"t", "f", "z", "_">> \o langues[i]]
MusicUrls  ==
    [i \in 1..NumMusic |-> musiques_base \o <<"t", "f", "m", "_">> \o Digit(i - 1) \o <<".", "m", "p", "3">>]

\* lines 136-157: one coroutine per discovered URL, then per static URL
\* (variant: without the static lists of lines 140-157)
BuildTasksDiscoveredOnly(urls) == [i \in 1..Len(urls) |-> Coroutine(urls[i])]

BuildTasks(urls) ==
    [i \in 1..Len(urls) |-> Coroutine(urls[i])]
    \o [i \in 1..Len(BinaryUrls) |-> Coroutine(BinaryUrls[i])]
    \o [i \in 1..Len(LangueUrls) |-> Coroutine(LangueUrls[i])]
    \o [i \in 1..Len(MusicUrls) |-> Coroutine(MusicUrls[i])]

\* (variant: a failure of os.makedirs is swallowed and the run goes on)
MakeBaseLenient ==
    /\ pcMain = "mkroot"
    /\ \E deny \in BOOLEAN :
          LET missing == ~PathExists(fs, BASE_DOWNLOAD_FOLDER)
              mk      == MakeDirs(fs, BASE_DOWNLOAD_FOLDER, FALSE)
              failed  == missing /\ (deny \/ mk.err # "ok")
          IN  /\ deny => missing
              /\ fs' = IF missing /\ ~failed THEN mk.fs ELSE fs
              /\ mainLog' = mainLog \o (IF missing /\ ~failed THEN <<"CREATED_BASE">> ELSE <<>>)
              /\ session' = "open"
              /\ pcMain' = "disc_get"
    /\ UNCHANGED <<tasks, discVars, nstarted, nfinished, pc, content, handle, log, hist, fs0>>

\* lines 85-102: the base folder is created when missing (an OSError of
\* os.makedirs is not caught and leaves start_downloads), the session is
\* opened and the first discovery request is issued.
MakeBase ==
    /\ pcMain = "mkroot"
    /\ \E deny \in BOOLEAN :
          LET missing == ~PathExists(fs, BASE_DOWNLOAD_FOLDER)
              mk      == MakeDirs(fs, BASE_DOWNLOAD_FOLDER, FALSE)
              failed  == missing /\ (deny \/ mk.err # "ok")
          IN  /\ deny => missing
              /\ IF failed
                 THEN /\ pcMain' = "raised"
                      /\ UNCHANGED <<fs, session, mainLog>>
                 ELSE /\ fs' = IF missing THEN mk.fs ELSE fs
                      /\ mainLog' = mainLog \o (IF missing THEN <<"CREATED_BASE">> ELSE <<>>)
                      /\ session' = "open"
                      /\ pcMain' = "disc_get"
    /\ UNCHANGED <<tasks, discVars, nstarted, nfinished, pc, content, handle, log, hist, fs0>>

\* (variant: the loop is left after its first pass, as with a break)
NextSegmentBreak(urls, how) ==
    /\ derpolino_urls_to_download' = urls
    /\ disc' = how
    /\ seg' = seg + 1
    /\ tasks' = BuildTasks(urls)
    /\ mainLog' = mainLog \o <<"ADDED", "STARTING">>
    /\ pcMain' = "gather"
    /\ UNCHANGED <<fs, session, nstarted, nfinished, pc, content, handle, log, hist, fs0>>

\* lines 97-100, 136-164: the loop goes on to the next segment and issues its
\* request; after the last one the coroutines are created, and gather is
\* awaited if there is any.
NextSegment(urls, how) ==
    /\ derpolino_urls_to_download' = urls
    /\ disc' = how
    /\ seg' = seg + 1
    /\ IF seg < Len(paths_for_derpolino)
       THEN /\ pcMain' = "disc_get"
            /\ UNCHANGED <<tasks, mainLog>>
       ELSE /\ tasks' = BuildTasks(urls)
            /\ IF BuildTasks(urls) # <<>>
               THEN /\ mainLog' = mainLog \o <<"ADDED", "STARTING">>
                    /\ pcMain' = "gather"
               ELSE /\ mainLog' = mainLog \o <<"ADDED", "NO_ITEMS">>
                    /\ pcMain' = "exit_session"
    /\ UNCHANGED <<fs, session, nstarted, nfinished, pc, content, handle, log, hist, fs0>>

\* lines 102-103, 131-132: the discovery response head arrives
DiscGetResponds ==
    /\ pcMain = "disc_get"
    /\ \E status \in Statuses :
          IF status = 200
          THEN /\ pcMain' = "disc_read"
               /\ UNCHANGED <<fs, session, tasks, mainLog, discVars, nstarted, nfinished,
                              pc, content, handle, log, hist, fs0>>
          ELSE /\ NextSegment(derpolino_urls_to_download, "ERROR_STATUS")
               /\ entries' = entries

\* lines 102, 133-134: the discovery request fails
\* (variant: without the try of line 101 the exception leaves start_downloads
\* through the async with block, which closes the session)
DiscGetRaisesUncaught ==
    /\ pcMain = "disc_get"
    /\ pcMain' = "raised"
    /\ session' = "closed"
    /\ UNCHANGED <<fs, tasks, mainLog, discVars, nstarted, nfinished,
                   pc, content, handle, log, hist, fs0>>

DiscGetRaises ==
    /\ pcMain = "disc_get"
    /\ NextSegment(derpolino_urls_to_download, "ERROR_CONNECT")
    /\ entries' = entries

\* lines 104, 133-134: reading the discovery response fails
DiscReadRaises ==
    /\ pcMain = "disc_read"
    /\ NextSegment(derpolino_urls_to_download, "ERROR_CONNECT")
    /\ entries' = entries

\* lines 104-130: the discovery response is read and decoded
DiscRead ==
    /\ pcMain = "disc_read"
    /\ \E data \in JsonValues :
          LET partial_urls == IF data.kind \in {"dict", "list"} THEN data.items ELSE <<>>
              urls == derpolino_urls_to_download \o Qualified(partial_urls)
              how  == CASE data.kind = "invalid" -> "ERROR_JSON"
                        [] data.kind = "other"   -> "ERROR_SHAPE"
                        [] OTHER                 -> "ok"
              strs == {i \in 1..Len(partial_urls) : partial_urls[i].str}
              seen == [strings |-> entries.strings + Cardinality(strs),
                       others  |-> entries.others + Len(partial_urls) - Cardinality(strs)]
          IN  /\ Len(urls) <= MaxDiscovered
              /\ seen.others <= MaxDiscovered
              /\ NextSegment(urls, how)
              /\ entries' = seen

\* line 162: gather starts the coroutines in the order of the list; here they
\* are followed by count only.  Lines 18-20: the coroutine issues its request.
TaskStarts ==
    /\ pcMain = "gather"
    /\ nstarted < Len(tasks)
    /\ nstarted' = nstarted + 1
    /\ UNCHANGED <<fs, session, tasks, pcMain, mainLog, discVars, nfinished,
                   pc, content, handle, log, hist, fs0>>

\* lines 20-75: a started coroutine ends (every exception is caught in it)
TaskEnds ==
    /\ pcMain = "gather"
    /\ nfinished < nstarted
    /\ nfinished' = nfinished + 1
    /\ UNCHANGED <<fs, session, tasks, pcMain, mainLog, discVars, nstarted,
                   pc, content, handle, log, hist, fs0>>

BatchInit ==
    /\ fs \in StartStores
    /\ fs0 = fs
    /\ session = "none"
    /\ tasks = <<>>
    /\ pcMain = "mkroot"
    /\ mainLog = <<"BANNER">>
    /\ seg = 1
    /\ derpolino_urls_to_download = <<>>
    /\ disc = "none"
    /\ entries = [strings |-> Len(derpolino_urls_to_download), others |-> 0]
    /\ nstarted = 0
    /\ nfinished = 0
    /\ pc = <<>>
    /\ content = <<>>
    /\ handle = <<>>
    /\ log = <<>>
    /\ hist = <<>>

BatchNext ==
    \/ MakeBase
    \/ DiscGetResponds
    \/ DiscGetRaises
    \/ DiscReadRaises
    \/ DiscRead
    \/ TaskStarts
    \/ TaskEnds
    \/ GatherReturns
    \/ ExitSession

SpecBatch == BatchInit /\ [][BatchNext]_vars

-----------------------------------------------------------------------------
(* FetchOutcome: the program returns nothing, its outcome is what it        *)
(* prints.  Each of lines 52, 61, 64, 66, 69, 71, 73 reports an outcome;    *)
(* lines 19, 42, 55, 57 are progress and warnings.  Line 61 reports both    *)
(* Saved and Overwritten; an overwrite is a save announced by line 55 or 57.*)

OutcomeLines ==
    {"SKIP", "SAVE", "ERROR_404", "ERROR_STATUS", "NETWORK_ERROR", "OS_ERROR", "UNEXPECTED_ERROR"}

IsOutcomeLine(t) == t \in OutcomeLines

\* the outcome lines a coroutine has printed, in order
Reported(w) == SelectSeq(log[w], IsOutcomeLine)

Warned(w) == \E i \in 1..Len(log[w]) : log[w][i] \in {"WARN_DIFFERS", "WARN_READ"}

Outcome(w) ==
    IF Len(Reported(w)) # 1 THEN "none"
    ELSE LET t == Reported(w)[1]
         IN  CASE t = "SKIP"             -> "Skipped"
               [] t = "SAVE"             -> IF Warned(w) THEN "Overwritten" ELSE "Saved"
               [] t = "ERROR_404"        -> "NotFound"
               [] t = "ERROR_STATUS"     -> "HTTPError"
               [] t = "NETWORK_ERROR"    -> "NetworkError"
               [] t = "OS_ERROR"         -> "FilesystemError"
               [] t = "UNEXPECTED_ERROR" -> "UnexpectedError"

Persisted(w) == Outcome(w) \in {"Saved", "Skipped", "Overwritten"}

\* what the environment did to a coroutine
Got200(w)          == hist[w].status = 200
TransportFailed(w) == hist[w].resp = "ClientError" \/ hist[w].body = "ClientError"
OwnFsFailure(w)    == hist[w].oserror # "none"
Terminated(w)      == pc[w] = "done"
AllTerminated      == \A w \in Workers : Terminated(w)

-----------------------------------------------------------------------------
(* Claims                                                                  *)

\* no exception has left a coroutine, and a coroutine that could persist did
C1_Isolated ==
    /\ pcMain # "raised"
    /\ \A w \in Workers : pc[w] \notin {"raised", "cancelled"}
    /\ \A w \in Workers :
          (Terminated(w) /\ Got200(w) /\ hist[w].body = "ok" /\ ~OwnFsFailure(w))
              => Persisted(w)

C1_RunCompleted ==
    /\ pcMain = "input"
    /\ mainLog[Len(mainLog)] = "FINISHED"
    /\ \A w \in Workers : Terminated(w) /\ Len(Reported(w)) = 1 /\ log[w][1] = "INFO"

\* how far a coroutine, and start_downloads, have got
PcRank(p) ==
    CASE p = "new" -> 0 [] p = "get" -> 1 [] p = "read" -> 2 [] p = "open_r" -> 3
      [] p = "read_f" -> 4 [] p = "open_w" -> 5 [] p = "write" -> 6
      [] p = "close_buffered" -> 7 [] p = "close" -> 7 [] OTHER -> 8

MainRank(p) == CASE p = "gather" -> 0 [] p = "exit_session" -> 1 [] OTHER -> 2

RECURSIVE SumRanks(_, _)
SumRanks(pcs, n) == IF n = 0 THEN 0 ELSE PcRank(pcs[n]) + SumRanks(pcs, n - 1)

Progress(pcs, m) == SumRanks(pcs, Len(pcs)) + MainRank(m)

\* some step of the program can be taken: a started coroutine waits for an
\* operation that ends, a new one waits for gather to start it, gather waits
\* for the last coroutine, the session's with block waits to be left
CanStep ==
    \/ \E w \in Workers :
          \/ pc[w] \in {"get", "read", "open_r", "read_f", "open_w", "write",
                        "close_buffered", "close"}
          \/ pc[w] = "new" /\ pcMain = "gather"
    \/ GatherReady
    \/ pcMain = "exit_session"

\* C1 (failure isolation).  No exception ever leaves a
\* download_item and reaches start_downloads; every coroutine of the batch is
\* started and ends having reported one outcome, and start_downloads prints
\* its final report; and a coroutine that got 200 and its body, and whose own
\* filesystem calls did not fail, has persisted its file, whatever happened
\* to the other coroutines.
\* So: every state is isolated; the run can stop only completed; and every step
\* is a step forward, so the run does not go on for ever.
C1_FailureIsolation ==
    /\ [](C1_Isolated /\ (C1_RunCompleted \/ CanStep))
    /\ [][Progress(pc', pcMain') > Progress(pc, pcMain)]_vars

\* C1's case: the run is over, one coroutine failed and another one, fetched
\* with 200, saved its file.
C1_Witness ==
    /\ pcMain = "input"
    /\ \E v, w \in Workers :
          /\ Outcome(v) \in {"NetworkError", "FilesystemError", "HTTPError", "NotFound"}
          /\ Got200(w) /\ Outcome(w) = "Saved"


\* the outcome of a coroutine that got its body and met no OSError
C2_StoreResult(w) ==
    IF ~hist[w].existed THEN "Saved"
    ELSE IF ~hist[w].readfail /\ hist[w].seen = <<content[w]>> THEN "Skipped"
    ELSE "Overwritten"

FetchFailed(w) ==
    \/ hist[w].status \notin {0, 200}
    \/ hist[w].resp # "none"
    \/ hist[w].body = "ClientError"

\* C3 (no store access without a body).  A coroutine whose response status is
\* not 200, or whose request or body read failed at transport level, has
\* created no directory and opened no file for writing, and none of its steps
\* changes the filesystem.
C3_NoStoreAccess ==
    /\ [](\A w \in Workers : FetchFailed(w) => hist[w].made = {} /\ hist[w].wrote = {})
    /\ [][\A w \in Workers : (pc'[w] # pc[w] /\ FetchFailed(w)') => fs' = fs]_vars

\* C3's case: the batch has ended, one coroutine was answered 404 and the
\* other lost its connection while reading the body of a 200, over a store
\* that holds a file; the store is as it was.
C3_Witness ==
    /\ AllTerminated
    /\ fs0 = StoreWithA /\ fs = fs0
    /\ \E v, w \in Workers : hist[v].status = 404 /\ hist[w].body = "ClientError"


\* no filesystem call of the coroutine failed
NoFsFailure(w) == ~OwnFsFailure(w) /\ ~hist[w].readfail

\* the coroutine got its body, so it called the Content Store's part
Persisting(w) == Got200(w) /\ hist[w].body = "ok"

\* coroutine j persists, after i has ended, the body i persisted to a new file
C4_Sequence(i, j) ==
    /\ i # j
    /\ Terminated(i) /\ Terminated(j)
    /\ Persisting(i) /\ Persisting(j)
    /\ NoFsFailure(i) /\ NoFsFailure(j)
    /\ ~hist[i].existed
    /\ i \in hist[j].after
    /\ LocalPathOf(i) = LocalPathOf(j)
    /\ content[i] = content[j]
    /\ \A k \in Workers \ {i, j} : handle[i] \notin hist[k].wrote

\* C4 (idempotence).  Coroutine i persists B to a path where no file exists,
\* coroutine j persists the same B to the same file after i has ended, no
\* filesystem call of either fails and no one else writes that file: then
\* i reports Saved and j reports Skipped, j has opened no file for writing,
\* and the file holds exactly B.
C4_Idempotent ==
    \A i, j \in Workers :
       C4_Sequence(i, j) =>
          /\ Outcome(i) = "Saved"
          /\ Outcome(j) = "Skipped"
          /\ hist[j].wrote = {}
          /\ handle[i] \in DOMAIN fs
          /\ fs[handle[i]] = File(content[i])

\* C4's case: such a pair of coroutines has run, on a file of two bytes.
C4_Witness ==
    \E i, j \in Workers : C4_Sequence(i, j) /\ Len(content[i]) = 2

\* coroutine j persists a body to a file it has read with another content
C5_Case(j) ==
    /\ Terminated(j)
    /\ Persisting(j)
    /\ NoFsFailure(j)
    /\ hist[j].seen # <<>>
    /\ hist[j].seen # <<content[j]>>
    /\ \A k \in Workers \ {j} : handle[j] \in hist[k].wrote => k \in hist[j].after

\* C5 (overwrite).  A coroutine persists B2 to a path whose file it reads as
\* B1, B1 # B2, none of its filesystem calls fails, and every other writer of
\* that file had ended before it began: then it reports Overwritten and the
\* file holds exactly B2, which is not B1.
C5_Overwrite ==
    \A j \in Workers :
       C5_Case(j) =>
          /\ Outcome(j) = "Overwritten"
          /\ fs[handle[j]] = File(content[j])
          /\ fs[handle[j]].data # hist[j].seen[1]

\* C5's case: a file of two bytes has been overwritten with one byte.
C5_Witness ==
    \E j \in Workers : C5_Case(j) /\ Len(hist[j].seen[1]) = 2 /\ Len(content[j]) = 1


\* the coroutines that opened node n for writing and reported a save
Savers(n) ==
    {w \in Workers : n \in hist[w].wrote /\ Outcome(w) \in {"Saved", "Overwritten"}}

\* C6 (same-path race), as claimed: when the batch has ended and two or more
\* coroutines wrote the same file, each of them without any failure, the file
\* holds exactly the body of one of them.
C6_LastWriterWins ==
    \A n \in DOMAIN fs :
       ( /\ AllTerminated
         /\ Cardinality(Savers(n)) >= 2
         /\ \A w \in Workers : n \in hist[w].wrote => w \in Savers(n) )
       => \E w \in Savers(n) : fs[n] = File(content[w])

-----------------------------------------------------------------------------
(* One download_item run on its own: lines 37-61 executed without any      *)
(* other task in between, on filesystem f, where the system refuses the     *)
(* calls named in inj.                                                      *)

AloneRun(f, local_filepath, body, inj) ==
    LET local_dir == DirName(local_filepath)
        missing   == ~PathExists(f, local_dir)
        mk        == MakeDirs(f, local_dir, TRUE)
        f1        == IF missing /\ "mkdir" \notin inj THEN mk.fs ELSE f
        mkFailed  == missing /\ ("mkdir" \in inj \/ mk.err # "ok")
        existed   == PathExists(f1, local_filepath)
        rd        == OpenRB(f1, local_filepath)
        readOk    == existed /\ rd.err = "ok" /\ inj \cap {"open_r", "read"} = {}
        ow        == OpenWB(f1, local_filepath)
    IN  IF mkFailed THEN [out |-> "FilesystemError", fs |-> f1, whole |-> TRUE]
        ELSE IF readOk /\ ContentMatches(f1[rd.node].data, body)
             THEN [out |-> "Skipped", fs |-> f1, whole |-> TRUE]
        ELSE IF "open_w" \in inj \/ ow.err # "ok"
             THEN [out |-> "FilesystemError", fs |-> f1, whole |-> TRUE]
        ELSE IF inj \cap {"write", "close"} # {}
             THEN [out |-> "FilesystemError", fs |-> ow.fs, whole |-> FALSE]
        ELSE [out |-> IF existed THEN "Overwritten" ELSE "Saved",
              fs |-> Put(ow.fs, ow.node, File(body)), whole |-> TRUE]

\* the node a path string names, and the nodes its resolution passes through
RECURSIVE Through(_, _)
Through(cur, cs) ==
    IF cs = <<>> THEN <<cur>>
    ELSE LET c   == Head(cs)
             nxt == IF c = <<".">> THEN cur
                    ELSE IF c = <<".", ".">> THEN Parent(cur)
                    ELSE Append(cur, c)
         IN  <<cur>> \o Through(nxt, Tail(cs))

PathNodes(p) == Through(IF StartsWith(p, <<SLASH>>) THEN <<>> ELSE CWD, Components(p))
FileNode(p)  == PathNodes(p)[Len(PathNodes(p))]
OnPath(n, p) == \E i \in 1..Len(PathNodes(p)) : PathNodes(p)[i] = n

\* the file of one path is the file of the other or a directory on its way
Contend(p, q) == OnPath(FileNode(p), q) \/ OnPath(FileNode(q), p)

\* the LocalPath of the locator of coroutine w
LocalPath(w) == LocalFilePath(tasks[w].url, BASE_DOWNLOAD_FOLDER)

\* the coroutine ended as it would have run alone on the initial store, and
\* its file is as that run would have left it
AsAlone(w) ==
    LET a == AloneRun(fs0, LocalPath(w), content[w], hist[w].inject)
        n == FileNode(LocalPath(w))
    IN  /\ Outcome(w) = a.out
        /\ a.whole => /\ (n \in DOMAIN fs) = (n \in DOMAIN a.fs)
                      /\ n \in DOMAIN fs => fs[n] = a.fs[n]

UnderRoot(n) == Len(n) > Len(RootNode) /\ SubSeq(n, 1, Len(RootNode)) = RootNode

\* C8 (containment), as claimed: every directory created and every file
\* opened for writing by a coroutine lies under the base folder.
C8_UnderRoot ==
    \A w \in Workers : \A n \in hist[w].made \cup hist[w].wrote : UnderRoot(n)

\* C9 (no partial state), as claimed: when the run is over, every file holds
\* what it held before the run or the whole body of a 200 response fetched
\* for its path.
C9_NoPartialState ==
    pcMain = "input" =>
       \A n \in DOMAIN fs :
          ~fs[n].dir =>
             \/ n \in DOMAIN fs0 /\ fs[n] = fs0[n]
             \/ \E w \in Workers :
                   /\ Persisting(w)
                   /\ FileNode(LocalPathOf(w)) = n
                   /\ fs[n] = File(content[w])


-----------------------------------------------------------------------------
(* The batch of start_downloads                                            *)

\* line 166 has been reached
Reported_Finished == \E i \in 1..Len(mainLog) : mainLog[i] = "FINISHED"

\* the coroutines of the batch exist (lines 136-157 have run)
BatchBuilt == pcMain \in {"gather", "exit_session", "input"}

\* C10 (fan-out and fan-in).  Once the batch is built it holds one coroutine
\* per discovered URL, in the order of discovery, followed by one per static
\* URL: 6 archives, 30 language files, 4 media files; all of them were given
\* the one session; no more coroutines are started than the batch holds and
\* none ends before it starts; and when the session is closed or the end of
\* the run is reported, every coroutine of the batch has ended.
C10_FanOutFanIn ==
    LET n == Len(derpolino_urls_to_download)
    IN  /\ BatchBuilt =>
             /\ Len(tasks) = n + 6 + 30 + 4
             /\ \A i \in 1..n : tasks[i].url = derpolino_urls_to_download[i]
             /\ \A i \in 1..6 : tasks[n + i].url = BinaryUrls[i]
             /\ \A i \in 1..30 : tasks[n + 6 + i].url = LangueUrls[i]
             /\ \A i \in 1..4 : tasks[n + 36 + i].url = MusicUrls[i]
             /\ \A i \in 1..Len(tasks) : tasks[i].session = "session"
        /\ ~BatchBuilt => tasks = <<>>
        /\ nfinished <= nstarted /\ nstarted <= Len(tasks)
        /\ (session = "closed" \/ Reported_Finished) =>
             /\ BatchBuilt
             /\ session = "closed" /\ Reported_Finished
             /\ nfinished = Len(tasks)

\* C10's case: discovery found two URLs, 42 coroutines were started and have
\* ended, the session is closed and the end of the run is reported.
C10_Witness ==
    /\ Len(derpolino_urls_to_download) = 2
    /\ Len(tasks) = 42
    /\ nfinished = 42
    /\ session = "closed"
    /\ Reported_Finished

-----------------------------------------------------------------------------
(* Discovery                                                               *)

\* the ways a discovery query ends without a list (lines 114-115, 127-134)
DiscErrors == {"ERROR_STATUS", "ERROR_CONNECT", "ERROR_JSON", "ERROR_SHAPE"}

\* every static URL has its coroutine in the batch
StaticsInBatch ==
    \A u \in {BinaryUrls[i] : i \in 1..Len(BinaryUrls)}
             \cup {LangueUrls[i] : i \in 1..Len(LangueUrls)}
             \cup {MusicUrls[i] : i \in 1..Len(MusicUrls)} :
       \E i \in 1..Len(tasks) : tasks[i].url = u

\* C11 (discovery fallback).  start_downloads is left by an exception only
\* before the first discovery query; the batch is built only when all
\* segments have been queried, and it then holds every static URL; and a
\* step that ends the query of a segment with invalid JSON, a JSON value of
\* another shape, a status other than 200 or a failed request leaves the
\* discovered list as it was and either issues the query of the next segment
\* or, after the last segment, builds the batch.
C11_DiscoveryFallback ==
    /\ [](pcMain = "raised" => seg = 1 /\ session = "none")
    /\ [](BatchBuilt => seg = Len(paths_for_derpolino) + 1 /\ StaticsInBatch)
    /\ [][(seg' = seg + 1 /\ disc' \in DiscErrors) =>
            /\ derpolino_urls_to_download' = derpolino_urls_to_download
            /\ IF seg < Len(paths_for_derpolino)
               THEN pcMain' = "disc_get"
               ELSE BatchBuilt' /\ StaticsInBatch']_vars

\* C11's case: the query of the last segment failed after an earlier segment
\* had contributed, and the batch is built with the discovered URL in it.
C11_Witness ==
    /\ pcMain = "gather"
    /\ disc \in DiscErrors
    /\ Len(derpolino_urls_to_download) >= 1
    /\ tasks[1].url = derpolino_urls_to_download[1]

\* an absolute address: the scheme http or https, "://" and something after it
Absolute(url) ==
    \E scheme \in {<<"h", "t", "t", "p">>, <<"h", "t", "t", "p", "s">>} :
       /\ Len(url) > Len(scheme) + 3
       /\ SubSeq(url, 1, Len(scheme) + 3) = scheme \o <<":", "/", "/">>

-----------------------------------------------------------------------------
(* Locators without a path                                                 *)

\* the path component of the coroutine's locator is empty or only "/"
EmptyPath(w) == UrlPath(tasks[w].url) \in {<<>>, <<SLASH>>}

\* C13 (empty-path locator).  The LocalPath of a locator whose path is empty
\* or only the separator names the base folder itself; a coroutine for such
\* a locator that got 200 and the body ends, at its own boundary, with
\* FilesystemError, having created no directory and opened no file for
\* writing; and when the batch has ended, a coroutine whose only companions
\* are coroutines of such locators ended as it would have run alone.
C13_EmptyPath ==
    /\ pcMain # "raised"
    /\ \A w \in Workers :
          EmptyPath(w) =>
             /\ FileNode(LocalPath(w)) = RootNode
             /\ pc[w] \notin {"raised", "cancelled"}
             /\ hist[w].made = {} /\ hist[w].wrote = {}
             /\ (Terminated(w) /\ Persisting(w)) => Outcome(w) = "FilesystemError"
    /\ \A v \in Workers :
          ( /\ AllTerminated
            /\ Persisting(v)
            /\ \A w \in Workers \ {v} : EmptyPath(w) /\ Persisting(w) )
          => AsAlone(v)

\* C13's case: the batch has ended; the coroutine of a locator with no path
\* at all got 200 and ended with FilesystemError, and its companion saved a
\* file.
C13_Witness ==
    /\ AllTerminated
    /\ \E v, w \in Workers :
          /\ tasks[w].url = LocNoPath
          /\ Persisting(w) /\ Outcome(w) = "FilesystemError"
          /\ Outcome(v) = "Saved"

-----------------------------------------------------------------------------
(* Empty discovery, empty batch                                            *)

\* a line start_downloads has printed
MainPrinted(line) == \E i \in 1..Len(mainLog) : mainLog[i] = line

\* the URLs of the coroutines of the batch, in order
BatchUrls == [i \in 1..Len(tasks) |-> tasks[i].url]

\* C14 (empty discovery, empty batch).  When the batch is built and nothing
\* was discovered, the batch is the static URLs and nothing else, gather is
\* awaited, and when the end of the run is reported all of these coroutines
\* have been started and have ended.  When the batch is built and empty,
\* start_downloads has printed that there is nothing to download, no
\* coroutine has been started and no exception has left start_downloads; the
\* two announcements exclude each other.
C14_EmptyDiscoveryEmptyBatch ==
    /\ (BatchBuilt /\ derpolino_urls_to_download = <<>>) =>
          /\ BatchUrls = BinaryUrls \o LangueUrls \o MusicUrls
          /\ MainPrinted("STARTING") /\ ~MainPrinted("NO_ITEMS")
          /\ Reported_Finished => nstarted = Len(tasks) /\ nfinished = Len(tasks)
    /\ (BatchBuilt /\ tasks = <<>>) =>
          /\ MainPrinted("NO_ITEMS") /\ ~MainPrinted("STARTING")
          /\ nstarted = 0
          /\ pcMain # "gather"
    /\ MainPrinted("NO_ITEMS") => tasks = <<>> /\ BatchBuilt
    /\ MainPrinted("STARTING") => tasks # <<>> /\ BatchBuilt

\* C14's case: no response held a string entry, the batch of the 40 static
\* URLs was fetched and the end of the run is reported.
C14_Witness ==
    /\ Reported_Finished
    /\ entries.strings = 0
    /\ derpolino_urls_to_download = <<>>
    /\ Len(tasks) = 40
    /\ nfinished = 40

-----------------------------------------------------------------------------
(* Path mapping                                                            *)

\* a path without its first character when that is the separator
StripOneSlash(s) == IF StartsWith(s, <<SLASH>>) THEN Tail(s) ELSE s

\* what remains of the locator's path component once the query is stripped,
\* the escapes are decoded and one leading separator is removed
MappedRest(url) == StripOneSlash(Unquote(SplitQuery0(UrlPath(url))))

\* the locator of the example: http://h/a/b%20c.png?x=1
LocExample ==
    <<"h", "t", "t", "p", ":", "/", "/", "h", "/", "a", "/", "b", "%", "2", "0", "c",
      ".", "p", "n", "g", "?", "x", "=", "1">>

\* C15 (path mapping), as claimed: the example locator maps to
\* <root>/a/b c.png; and for every coroutine that got its body, the path it
\* uses is the base folder, a separator and what remains of the locator's
\* path, and it is the path of every other coroutine whose locator is the
\* same up to the query.
C15_PathMapping ==
    /\ LocalFilePath(LocExample, BASE_DOWNLOAD_FOLDER)
          = BASE_DOWNLOAD_FOLDER \o <<"/", "a", "/", "b", " ", "c", ".", "p", "n", "g">>
    /\ \A w \in Workers :
          Persisting(w) =>
             /\ LocalPathOf(w) = BASE_DOWNLOAD_FOLDER \o <<SLASH>> \o MappedRest(tasks[w].url)
             /\ \A v \in Workers :
                   SplitQuery0(tasks[v].url) = SplitQuery0(tasks[w].url)
                      => LocalPathOf(v) = LocalPathOf(w)

-----------------------------------------------------------------------------
(* A failed read of the existing file                                      *)

\* no other coroutine wrote the file of coroutine j, unless it had ended
\* before j began to persist
SoleWriter(j) ==
    \A k \in Workers \ {j} : handle[j] \in hist[k].wrote => k \in hist[j].after

\* C16 (read failure).  A coroutine that found a file at its path and failed
\* to open or to read it has printed the warning and, once it has ended, has
\* tried the write: its outcome is Overwritten when none of its own write
\* steps failed and FilesystemError when one did, never the error of the
\* read; and when the write succeeded and no other coroutine wrote the file
\* meanwhile, the file holds exactly the new body.
C16_ReadFailureOverwrites ==
    \A j \in Workers :
       hist[j].readfail =>
          /\ hist[j].existed
          /\ Warned(j)
          /\ pc[j] \in {"open_w", "write", "close", "close_buffered", "done"}
          /\ Terminated(j) =>
                /\ hist[j].wrote # {} \/ hist[j].oserror = "open_w"
                /\ Outcome(j) = IF OwnFsFailure(j) THEN "FilesystemError" ELSE "Overwritten"
                /\ (~OwnFsFailure(j) /\ SoleWriter(j)) => fs[handle[j]] = File(content[j])

\* C16's case: the read of an existing file of two bytes was refused, and
\* the coroutine has overwritten it with a body of one byte.
C16_Witness ==
    \E j \in Workers :
       /\ Terminated(j)
       /\ hist[j].inject = {"read"}
       /\ Outcome(j) = "Overwritten"
       /\ fs0[handle[j]] = File(<<1, 2>>)
       /\ fs[handle[j]] = File(<<3>>)

-----------------------------------------------------------------------------
(* Directories made by several coroutines                                  *)

\* the directory of the coroutine's file is missing at the start and can be
\* made: nothing that is no directory stands in the way
MissingParents(w) ==
    LET chain == PathNodes(DirName(LocalPath(w)))
    IN  /\ chain[Len(chain)] \notin DOMAIN fs0
        /\ \A i \in 1..Len(chain) : chain[i] \in DOMAIN fs0 => fs0[chain[i]].dir

\* the file of one of the two paths is a directory on the way to the other
PrefixRelated(p, q) == Contend(p, q) /\ FileNode(p) # FileNode(q)

\* the coroutine has run lines 40-43
PastMakeDirs(w) == hist[w].body = "ok"

\* C17 (parent directories).  Take a coroutine whose parent directories are
\* missing at the start, to which the system refuses nothing, and none of
\* whose companions has a path that is a directory prefix of its path or the
\* other way round.  Whatever its companions do, once it has run lines 40-43
\* no directory creation of its own has failed and the directory of its file
\* exists from then on, before its existence check, its open and its write;
\* and it ends with Saved, Skipped or Overwritten.
C17_ParentDirectories ==
    \A w \in Workers :
       ( /\ MissingParents(w)
         /\ PastMakeDirs(w)
         /\ hist[w].inject = {}
         /\ \A v \in Workers \ {w} : ~PrefixRelated(LocalPath(v), LocalPath(w)) )
       => /\ hist[w].oserror # "mkdir"
          /\ IsDir(fs, DirName(LocalPath(w)))
          /\ Terminated(w) => Outcome(w) \in {"Saved", "Skipped", "Overwritten"}

\* C17's case: two coroutines with files under the same missing directory,
\* one of them one level deeper, have both saved: the directory was made by
\* one of them and found by the other, which made the deeper one only.
C17_Witness ==
    /\ AllTerminated
    /\ \E v, w \in Workers :
          /\ tasks[v].url = LocAB /\ tasks[w].url = LocACD
          /\ MissingParents(v) /\ MissingParents(w)
          /\ Outcome(v) = "Saved" /\ Outcome(w) = "Saved"
          /\ hist[v].made # {}
          /\ Cardinality(hist[w].made) = 1

-----------------------------------------------------------------------------
(* The start of the run                                                    *)

\* C18 (base folder).  When an exception has left start_downloads, it did so
\* before anything else happened: no session was opened, no discovery query
\* issued, no coroutine created or started, nothing printed after the banner,
\* the filesystem is as it was and the base folder is missing; no step
\* follows; and the run is past line 87 only with the base folder present.
C18_RootCreationFatal ==
    /\ [](pcMain = "raised" =>
            /\ session = "none"
            /\ seg = 1 /\ disc = "none" /\ derpolino_urls_to_download = <<>>
            /\ tasks = <<>> /\ nstarted = 0
            /\ mainLog = <<"BANNER">>
            /\ fs = fs0
            /\ ~PathExists(fs, BASE_DOWNLOAD_FOLDER))
    /\ [](pcMain \notin {"mkroot", "raised"} => PathExists(fs, BASE_DOWNLOAD_FOLDER))
    /\ [][pcMain # "raised"]_vars

\* C18's case: the base folder was missing, its creation was refused and the
\* exception has left start_downloads.
C18_Witness ==
    /\ pcMain = "raised"
    /\ fs0 = StoreNoBase

-----------------------------------------------------------------------------
(* Discovery before fetching                                               *)

\* start_downloads is in its discovery loop, waiting for a response
Discovering == pcMain \in {"disc_get", "disc_read"}

\* C19 (discovery precedes fetching).  While start_downloads creates the base
\* folder or waits for a discovery response, the segment queried is one of the
\* configured ones, no coroutine exists and none has been started or has
\* ended; a coroutine is started only when all segments have been queried and
\* the batch holds the discovered and the static URLs; the segments are taken
\* one by one, in order, each step of the loop ending the query of one
\* segment at most; and no step of the discovery changes the filesystem.
C19_DiscoveryPrecedesFetching ==
    /\ [](Discovering => seg \in 1..Len(paths_for_derpolino))
    /\ []((Discovering \/ pcMain = "mkroot") =>
             tasks = <<>> /\ nstarted = 0 /\ nfinished = 0)
    /\ [](nstarted > 0 =>
             /\ seg = Len(paths_for_derpolino) + 1
             /\ BatchBuilt
             /\ Len(tasks) = Len(derpolino_urls_to_download) + 40)
    /\ [][/\ seg' \in {seg, seg + 1}
          /\ seg' = seg + 1 => Discovering
          /\ Discovering => fs' = fs
          /\ derpolino_urls_to_download' # derpolino_urls_to_download => pcMain = "disc_read"]_vars

\* C19's case: the eighth query has ended, two URLs were discovered
\* and the first coroutine has been started, none has ended.
C19_Witness ==
    /\ seg = Len(paths_for_derpolino) + 1
    /\ Len(derpolino_urls_to_download) = 2
    /\ pcMain = "gather"
    /\ nstarted = 1
    /\ nfinished = 0

=============================================================================
